---------------------------- MODULE Spec2Model ----------------------------
(***************************************************************************)
(* A model of schema_salad's reference resolver (ref_resolver.py): the     *)
(* Loader with its normalizing index, compiled context, fetcher,           *)
(* resolve_ref / resolve_all and the link validator.                       *)
(*                                                                         *)
(* Python objects live in a heap: a dict or a list is a heap object named  *)
(* by its address, so that aliasing (the same node held by the index and   *)
(* by a parent document) is visible.  A Python str is a structured value   *)
(* [pre, path, frag, eh] standing for the text                              *)
(*     pre ":" ("//" when pre is a transport scheme) path "#" frag          *)
(* where frag is the list of "/"-separated fragment components and eh says *)
(* that the text ends in a bare "#" (an empty fragment).                   *)
(***************************************************************************)
EXTENDS Integers, Sequences, FiniteSets, TLC

\* ------------------------------------------------------------------------
\* Bounds of the model
\* ------------------------------------------------------------------------

\* Number of loader operations in one behaviour.
MaxOps == 2

\* The interpreter's limit on nested calls (sys.getrecursionlimit()); nested
\* resolve_ref / resolve_all / validate_links calls beyond it raise
\* RecursionError, a RuntimeError.
RecursionLimit == 8

\* ------------------------------------------------------------------------
\* Python str values
\* ------------------------------------------------------------------------

Str(pre, path, frag, eh) == [pre |-> pre, path |-> path, frag |-> frag, eh |-> eh]

\* A plain word: no scheme, no fragment.
S(w) == Str("", w, <<>>, FALSE)

EmptyStr == S("")

\* "file:///<name>#<frag>"
FileUrl(name, frag) == Str("file", "/" \o name, frag, FALSE)

\* Schemes that urllib gives a "//" authority part.
Schemes == {"file", "http", "https"}

\* urllib.parse.urlsplit(url).geturl(): parse and reassemble; an empty
\* fragment is dropped.
urlnormalize(url) == [url EXCEPT !.eh = FALSE]

\* urllib.parse.urldefrag(url)[0]
urldefrag(url) == [url EXCEPT !.frag = <<>>, !.eh = FALSE]

\* url.startswith("$(") or url.startswith("${")
ExprWords == {"$(x)", "${x}"}
StartsWithExpr(url) == url.pre = "" /\ url.path \in ExprWords

\* Text concatenation a + b of a str a and a scheme-less str b.
StrConcat(a, b) ==
    IF a.eh
    THEN [a EXCEPT !.frag = IF b.path = "" THEN <<>> ELSE <<b.path>>,
                   !.eh = (b.path = "")]
    ELSE IF a.frag # <<>>
    THEN [a EXCEPT !.frag[Len(a.frag)] = @ \o b.path]
    ELSE Str(a.pre, a.path \o b.path, b.frag, b.eh)

\* urllib.parse.urljoin(base, url) for a url without scheme; every document
\* of the model lives in the root directory.
urljoin(base, url) ==
    IF base = EmptyStr THEN url
    ELSE IF url = EmptyStr THEN base
    ELSE IF url.pre # "" THEN url
    ELSE IF url.path = ""
    THEN [base EXCEPT !.frag = url.frag, !.eh = FALSE]
    ELSE Str(base.pre,
             IF base.path = "" THEN url.path ELSE "/" \o url.path,
             url.frag, FALSE)

\* ------------------------------------------------------------------------
\* Python values and insertion-ordered dicts
\* ------------------------------------------------------------------------

VStr(s) == [k |-> "str", s |-> s, o |-> 0]
VRef(o) == [k |-> "ref", s |-> EmptyStr, o |-> o]
VNone   == [k |-> "none", s |-> EmptyStr, o |-> 0]

\* bool(v) for a value that is None or a str.
Truthy(v) == v.k = "ref" \/ (v.k = "str" /\ v.s # EmptyStr)

\* An ordered dict is the sequence of its items in insertion order.
Item(k, v) == [key |-> k, val |-> v]

MKeys(mp) == {mp[i].key : i \in DOMAIN mp}

MHas(mp, k) == \E i \in DOMAIN mp : mp[i].key = k

MPos(mp, k) == CHOOSE i \in DOMAIN mp : mp[i].key = k

MGet(mp, k) == mp[MPos(mp, k)].val

\* mp[k] = v: an existing key keeps its place.
MPut(mp, k, v) ==
    IF MHas(mp, k) THEN [mp EXCEPT ![MPos(mp, k)].val = v]
    ELSE Append(mp, Item(k, v))

\* del mp[k]
MDel(mp, k) == SelectSeq(mp, LAMBDA it : it.key # k)

\* mp.update(other)
RECURSIVE MUpdate(_, _)
MUpdate(mp, other) ==
    IF other = <<>> THEN mp
    ELSE MUpdate(MPut(mp, Head(other).key, Head(other).val), Tail(other))

\* Heap objects.
Dict(items) == [kind |-> "dict", items |-> items]
List(vals)  == [kind |-> "list", items |-> [i \in DOMAIN vals |-> Item(EmptyStr, vals[i])]]

\* _copy_dict_without_key
_copy_dict_without_key(items, filtered_key) == MDel(items, filtered_key)

\* ------------------------------------------------------------------------
\* NormDict: the index, keyed by normalized URL
\* ------------------------------------------------------------------------

NormContains(idx, key) == MHas(idx, urlnormalize(key))

NormGet(idx, key) == MGet(idx, urlnormalize(key))

\* A mutant of __setitem__: the dict is rebuilt around the new entry.
NormSetOnly(idx, key, value) == <<Item(urlnormalize(key), value)>>

\* NormDict.__setitem__

NormSet(idx, key, value) == MPut(idx, urlnormalize(key), value)

\* ------------------------------------------------------------------------
\* The interpreter state threaded through every call
\* ------------------------------------------------------------------------
\* heap     : the dicts and lists, by address
\* idxs, graphs, fps, caches : the NormDicts, rdflib graphs, foreign-property
\*            sets and text caches that loaders hold references to
\* loaders  : the Loader objects
\* err      : "" or the class of the exception being raised
\* ret, meta: the value(s) returned by the last call
\* fetched  : the URLs whose text was requested from the transport, in order

Raise(m, e) == [m EXCEPT !.err = e]

Ok(m) == m.err = ""

Return(m, v) == [m EXCEPT !.ret = v]

\* Statement sequencing.  Then(m1, K): m1 is the machine a call leaves; if it
\* raised, the exception goes up, otherwise the statements K that follow run
\* on it.  With(v, K): the statements K run with a local variable bound to v.
Then(m1, K(_)) == IF Ok(m1) THEN K(m1) ELSE m1

With(v, K(_)) == K(v)

\* The address the next allocated object gets.
NewAddr(m) == Len(m.heap) + 1

Alloc(m, obj) == [m EXCEPT !.heap = Append(@, obj)]

IsDict(m, v) == v.k = "ref" /\ m.heap[v.o].kind = "dict"

IsList(m, v) == v.k = "ref" /\ m.heap[v.o].kind = "list"

\* key in v, for a dict v
In(m, v, key) == MHas(m.heap[v.o].items, key)

\* v[key]
At(m, v, key) == MGet(m.heap[v.o].items, key)

\* v[key] = val
SetAt(m, v, key, val) == [m EXCEPT !.heap[v.o].items = MPut(@, key, val)]

\* A mutant of the list assignment: the element is left as it was.
SetIndexSkip(m, v, i, val) == m

\* lst[i] = val (1-based)
SetIndex(m, v, i, val) == [m EXCEPT !.heap[v.o].items[i].val = val]

IdxOf(m, L) == m.idxs[m.loaders[L].idx]

IdxHas(m, L, url) == NormContains(IdxOf(m, L), url)

IdxGet(m, L, url) == NormGet(IdxOf(m, L), url)

IdxSet(m, L, url, val) == [m EXCEPT !.idxs[m.loaders[L].idx] = NormSet(@, url, val)]

\* ------------------------------------------------------------------------
\* Loader.expand_url
\* ------------------------------------------------------------------------

\* scoped_ref=None
NoScope == -1

\* The scoped_id branch: the path is appended to the base's fragment.
ScopedId(base, url) ==
    Str(base.pre,
        IF base.path = "" THEN "/" ELSE base.path,
        IF base.frag # <<>> THEN Append(base.frag, url.path)
        ELSE IF url.path = "" THEN <<>> ELSE <<url.path>>,
        FALSE)

expand_url(self, url, base_url, scoped_id, vocab_term, scoped_ref) ==
    IF url \in {S("@id"), S("@type")} THEN url
    ELSE IF vocab_term /\ MHas(self.vocab, url) THEN url
    ELSE
      With(IF self.vocab # <<>> /\ url.pre # "" /\ MHas(self.vocab, S(url.pre))
           THEN StrConcat(MGet(self.vocab, S(url.pre)), [url EXCEPT !.pre = ""])
           ELSE url,
           LAMBDA u1 :
      With(IF u1.pre # "" \/ StartsWithExpr(u1) THEN u1
           ELSE IF scoped_id /\ u1.frag = <<>> THEN ScopedId(base_url, u1)
           ELSE IF scoped_ref # NoScope /\ u1.frag = <<>> THEN u1
           ELSE urljoin(base_url, u1),
           LAMBDA u2 :
        IF vocab_term /\ MHas(self.rvocab, u2) THEN MGet(self.rvocab, u2) ELSE u2))

\* ------------------------------------------------------------------------
\* Context construction
\* ------------------------------------------------------------------------

\* A value of the @context mapping: a str, or a mapping with "@type",
\* "refScope", "identity", "noLinkCheck", "mapSubject", "mapPredicate",
\* "typeDSL" and "@id" entries (refScope -1, an empty str and hasId FALSE
\* stand for an absent entry).
CtxStr(s) ==
    [isdict |-> FALSE, str |-> s, type |-> "", refScope |-> -1,
     identity |-> FALSE, noLinkCheck |-> FALSE, mapSubject |-> EmptyStr,
     mapPredicate |-> EmptyStr, typeDSL |-> FALSE, hasId |-> FALSE, id |-> EmptyStr]

CtxDict(type, refScope, identity, noLinkCheck) ==
    [CtxStr(EmptyStr) EXCEPT !.isdict = TRUE, !.type = type, !.refScope = refScope,
                             !.identity = identity, !.noLinkCheck = noLinkCheck]

CtxWithId(c, id) == [c EXCEPT !.hasId = TRUE, !.id = id]

IsIdType(v)    == v.isdict /\ v.type = "@id"
IsVocabType(v) == v.isdict /\ v.type = "@vocab"

\* The vocab entries of a context, in the context's order.
CtxVocab(ctx) ==
    LET sel == SelectSeq(ctx, LAMBDA it : (it.val.isdict /\ it.val.hasId) \/ ~it.val.isdict)
    IN [i \in DOMAIN sel |->
          Item(sel[i].key, IF sel[i].val.isdict THEN sel[i].val.id ELSE sel[i].val.str)]

\* for k, v in vocab.items(): rvocab[expand_url(v, "", scoped_id=False)] = k
RECURSIVE BuildRvocab(_, _, _)
BuildRvocab(self, todo, rvocab) ==
    IF todo = <<>> THEN rvocab
    ELSE BuildRvocab(self, Tail(todo),
            MPut(rvocab,
                 expand_url(self, Head(todo).val, EmptyStr, FALSE, FALSE, NoScope),
                 Head(todo).key))

\* if self.vocab:
ContextHasStuff(self) == self.vocab # <<>>

\* Lines 206-255 of add_context: the field classifications are read off the
\* merged context.
ClassifyContext(self, ctx) ==
    LET isId(v) == ~v.isdict /\ v.str = S("@id")
        fields(P(_)) == MKeys(SelectSeq(ctx, LAMBDA it : P(it.val)))
        table(P(_), V(_)) ==
            With(SelectSeq(ctx, LAMBDA it : P(it.val)), LAMBDA sel :
              [i \in DOMAIN sel |-> Item(sel[i].key, V(sel[i].val))])
    IN [self EXCEPT
          !.ctx = ctx,
          !.identifiers = fields(isId),
          !.identity_links = fields(LAMBDA v : isId(v) \/ (IsIdType(v) /\ v.identity)),
          !.url_fields = fields(LAMBDA v : IsIdType(v) \/ IsVocabType(v)),
          !.vocab_fields = fields(IsVocabType),
          !.scoped_ref_fields =
              table(LAMBDA v : (IsIdType(v) \/ IsVocabType(v)) /\ v.refScope # -1
                               /\ ~isId(v),
                    LAMBDA v : v.refScope),
          !.type_dsl_fields = fields(LAMBDA v : IsVocabType(v) /\ v.typeDSL),
          !.standalone = {},
          !.nolinkcheck = fields(LAMBDA v : v.isdict /\ v.noLinkCheck),
          !.idmap = table(LAMBDA v : v.isdict /\ v.mapSubject # EmptyStr,
                          LAMBDA v : v.mapSubject),
          !.mapPredicate = table(LAMBDA v : v.isdict /\ v.mapPredicate # EmptyStr,
                                 LAMBDA v : v.mapPredicate),
          !.vocab = CtxVocab(ctx),
          !.rvocab = <<>>]

add_context(m, L, newcontext) ==
    IF ContextHasStuff(m.loaders[L]) THEN Raise(m, "ValidationException")
    ELSE
      With(ClassifyContext(m.loaders[L],
                           MUpdate(m.loaders[L].ctx,
                                   _copy_dict_without_key(newcontext, S("@context")))),
           LAMBDA l1 :
        [m EXCEPT !.loaders[L] = [l1 EXCEPT !.rvocab = BuildRvocab(l1, l1.vocab, <<>>)]])

\* Loader.__init__; a store argument of 0 stands for None (a new store is made).
Loader(m, ctx, schemagraph, foreign_properties, idx, cache) ==
    add_context(
      [m EXCEPT
         !.idxs = IF idx # 0 THEN @ ELSE Append(@, <<>>),
         !.graphs = IF schemagraph # 0 THEN @ ELSE Append(@, {}),
         !.fps = IF foreign_properties # 0 THEN @ ELSE Append(@, {}),
         !.caches = IF cache # 0 THEN @ ELSE Append(@, <<>>),
         !.loaders = Append(@,
            [idx |-> IF idx # 0 THEN idx ELSE Len(m.idxs) + 1,
             graph |-> IF schemagraph # 0 THEN schemagraph ELSE Len(m.graphs) + 1,
             foreign_properties |->
                 IF foreign_properties # 0 THEN foreign_properties ELSE Len(m.fps) + 1,
             cache |-> IF cache # 0 THEN cache ELSE Len(m.caches) + 1,
             ctx |-> <<>>,
             url_fields |-> {}, scoped_ref_fields |-> <<>>, vocab_fields |-> {},
             identifiers |-> {}, identity_links |-> {}, standalone |-> {},
             nolinkcheck |-> {}, vocab |-> <<>>, rvocab |-> <<>>, idmap |-> <<>>,
             mapPredicate |-> <<>>, type_dsl_fields |-> {}])],
      Len(m.loaders) + 1, ctx)

\* A mutant of SubLoader: the new loader gets an Index of its own.
SubLoaderOwnIndex(m, L) ==
    Loader(m, m.loaders[L].ctx, m.loaders[L].graph, m.loaders[L].foreign_properties, 0,
           m.loaders[L].cache)

\* SubLoader(loader); the new loader is the last of m.loaders.
SubLoader(m, L) ==
    LET loader == m.loaders[L]
    IN Loader(m, loader.ctx, loader.graph, loader.foreign_properties, loader.idx,
              loader.cache)

\* A fresh empty dict, a fresh empty list: literals {} and [] that nothing
\* else refers to.
VEmptyDict == [k |-> "empty", s |-> EmptyStr, o |-> 0]
VEmptyList == [k |-> "emptylist", s |-> EmptyStr, o |-> 0]

\* The {str: str} items of a mapping of namespaces.
NamespaceItems(m, v) ==
    IF v.k # "ref" THEN <<>>
    ELSE [i \in DOMAIN m.heap[v.o].items |->
            Item(m.heap[v.o].items[i].key, m.heap[v.o].items[i].val.s)]

\* Loader.add_namespaces
add_namespaces(m, L, ns) == [m EXCEPT !.loaders[L].vocab = MUpdate(@, NamespaceItems(m, ns))]

\* ------------------------------------------------------------------------
\* The documents the transport serves
\* ------------------------------------------------------------------------
\* A file is its raw text (one str), whether the YAML parser accepts it, and
\* the tree the parser builds: objs are the dicts and lists, addressed from 1,
\* and root is the value of the whole document.

File(name, root, objs) ==
    [name |-> name, text |-> S("text of " \o name), yaml |-> TRUE,
     root |-> root, objs |-> objs]

\* A file holding one plain scalar: the parser returns the text itself.
TextFile(name, text) ==
    [name |-> name, text |-> S(text), yaml |-> TRUE, root |-> VStr(S(text)), objs |-> <<>>]

\* for x in set: Python iterates a set in an order of its own; the model
\* fixes one.
RECURSIVE SeqOfSet(_)
SeqOfSet(set) ==
    IF set = {} THEN <<>>
    ELSE LET x == CHOOSE y \in set : TRUE IN <<x>> \o SeqOfSet(set \ {x})

\* yaml.load: fresh objects for every parse.
Relocate(v, off) == IF v.k = "ref" THEN VRef(v.o + off) ELSE v

YamlLoad(m, file) ==
    LET off == Len(m.heap)
        objs == [i \in DOMAIN file.objs |->
                   [file.objs[i] EXCEPT
                      !.items = [j \in DOMAIN @ |->
                                   Item(@[j].key, Relocate(@[j].val, off))]]]
    IN [m EXCEPT !.heap = @ \o objs, !.ret = Relocate(file.root, off)]

\* The addresses an object holds.
Refs(obj) == {obj.items[i].val.o : i \in {j \in DOMAIN obj.items : obj.items[j].val.k = "ref"}}

\* The objects reachable from a set of addresses.
RECURSIVE Reach(_, _)
Reach(heap, addrs) ==
    LET next == addrs \cup UNION {Refs(heap[a]) : a \in addrs}
    IN IF next = addrs THEN addrs ELSE Reach(heap, next)

ReachFrom(heap, v) == IF v.k = "ref" THEN Reach(heap, {v.o}) ELSE {}

\* A mutant of the deep copy: the object itself is handed back.
DeepCopyAlias(m, v) == Return(m, v)

\* copy.deepcopy(v): every reachable object is copied once, sharing and
\* cycles are kept.
DeepCopy(m, v) ==
    IF v.k # "ref" THEN Return(m, v)
    ELSE
      LET old == SeqOfSet(ReachFrom(m.heap, v))
          off == Len(m.heap)
          new(a) == off + (CHOOSE i \in DOMAIN old : old[i] = a)
          copy(val) == IF val.k = "ref" THEN VRef(new(val.o)) ELSE val
          objs == [i \in DOMAIN old |->
                     [m.heap[old[i]] EXCEPT
                        !.items = [j \in DOMAIN @ |-> Item(@[j].key, copy(@[j].val))]]]
      IN [m EXCEPT !.heap = @ \o objs, !.ret = VRef(new(v.o))]

\* Shorthands for writing documents down.
KV(k, v) == Item(S(k), v)
VS(w) == VStr(S(w))
Rel(path, frag) == Str("", path, frag, FALSE)

\* S1: a.yaml imports a fragment of b.yaml.
FileA ==
    File("a.yaml", VRef(1),
         << Dict(<<KV("steps", VRef(2))>>),
            List(<<VRef(3)>>),
            Dict(<<KV("$import", VStr(Rel("b.yaml", <<"step1">>)))>>) >>)

FileB ==
    File("b.yaml", VRef(1),
         << Dict(<<KV("id", VS("b.yaml")), KV("$graph", VRef(2))>>),
            List(<<VRef(3)>>),
            Dict(<<KV("id", VS("step1")), KV("run", VS("echo"))>>) >>)

\* Two documents that import each other; neither names itself.
FileC1 ==
    File("c1.yaml", VRef(1),
         << Dict(<<KV("x", VRef(2))>>),
            Dict(<<KV("$import", VS("c2.yaml"))>>) >>)

FileC2 ==
    File("c2.yaml", VRef(1),
         << Dict(<<KV("y", VRef(2))>>),
            Dict(<<KV("$import", VS("c1.yaml"))>>) >>)

\* Two documents that import each other and carry identifiers of their own.
FileD1 ==
    File("d1.yaml", VRef(1),
         << Dict(<<KV("id", VS("foo")), KV("x", VRef(2))>>),
            Dict(<<KV("$import", VS("d2.yaml"))>>) >>)

FileD2 ==
    File("d2.yaml", VRef(1),
         << Dict(<<KV("id", VS("bar")), KV("y", VRef(2))>>),
            Dict(<<KV("$import", VS("d1.yaml"))>>) >>)

\* Two nodes with the same identifier.
FileDup ==
    File("dup.yaml", VRef(1),
         << Dict(<<KV("steps", VRef(2))>>),
            List(<<VRef(3), VRef(4)>>),
            Dict(<<KV("id", VS("s")), KV("run", VS("one"))>>),
            Dict(<<KV("id", VS("s")), KV("run", VS("two"))>>) >>)

\* S6: a mixin of base.yaml with an override.
FileM ==
    File("m.yaml", VRef(1),
         << Dict(<<KV("a", VRef(2))>>),
            Dict(<<KV("$mixin", VS("base.yaml")), KV("label", VS("override"))>>) >>)

FileBase ==
    File("base.yaml", VRef(1),
         << Dict(<<KV("id", VS("base")), KV("label", VS("x")), KV("run", VS("r"))>>) >>)

\* S2: an include of a text, here under a URL field.
FileInc ==
    File("inc.yaml", VRef(1),
         << Dict(<<KV("link", VRef(2))>>),
            Dict(<<KV("$include", VS("notes.txt"))>>) >>)

FileNotes == TextFile("notes.txt", "hello")

\* An import of a file that does not exist, an include over a scheme that
\* no transport handles.
FileMiss ==
    File("miss.yaml", VRef(1),
         << Dict(<<KV("x", VRef(2))>>),
            Dict(<<KV("$import", VS("nothere.yaml"))>>) >>)

FileFtp ==
    File("ftp.yaml", VRef(1),
         << Dict(<<KV("x", VRef(2))>>),
            Dict(<<KV("$include", VStr(Str("ftp", "x", <<>>, FALSE)))>>) >>)

\* Links: to nothing, in an identity-link field, beneath a noLinkCheck field.
FileBad ==
    File("bad.yaml", VRef(1), << Dict(<<KV("link", VS("nowhere"))>>) >>)

FileIdent ==
    File("ident.yaml", VRef(1), << Dict(<<KV("name", VS("foo"))>>) >>)

FileNolink ==
    File("nolink.yaml", VRef(1),
         << Dict(<<KV("see", VRef(2))>>),
            Dict(<<KV("link", VS("nowhere"))>>) >>)

\* A key written as the full URL of a vocabulary term.
FileKeys ==
    File("keys.yaml", VRef(1),
         << Dict(<<Item(FileUrl("v", <<"Thing">>), VS("v"))>>) >>)

\* $namespaces and $schemas: the document is resolved by a sub-loader.
FileNs ==
    File("ns.yaml", VRef(1),
         << Dict(<<KV("$namespaces", VRef(2)), KV("$schemas", VS("s.rdf")),
                   KV("link", VStr(Str("p", "x", <<>>, FALSE)))>>),
            Dict(<<KV("p", VStr(Str("file", "/ns", <<>>, TRUE)))>>) >>)

\* S5: a workflow with nested identifiers.  The input in1 of step1 refers to
\* outA through a field of reference scope 2; outA names an output of the
\* workflow and, one scope further in, a port of step1.
FileW ==
    File("w.yaml", VRef(1),
         << Dict(<<KV("main", VRef(2))>>),
            Dict(<<KV("id", VS("main")), KV("step", VRef(3)), KV("output", VRef(4))>>),
            Dict(<<KV("id", VS("step1")), KV("in", VRef(5)), KV("port", VRef(6))>>),
            Dict(<<KV("id", VS("outA"))>>),
            Dict(<<KV("id", VS("in1")), KV("source2", VS("outA"))>>),
            Dict(<<KV("id", VS("outA"))>>) >>)

\* Directives with sibling keys: at the root of a document, in a list, and
\* the mixin of S6 as a document of its own.
FileImp2 ==
    File("imp2.yaml", VRef(1),
         << Dict(<<KV("$import", VS("b.yaml")), KV("extra", VS("e"))>>) >>)

FileInc2 ==
    File("inc2.yaml", VRef(1),
         << Dict(<<KV("extra", VS("e")), KV("$include", VS("notes.txt"))>>) >>)

FileWrap2 ==
    File("wrap2.yaml", VRef(1),
         << List(<<VRef(2)>>),
            Dict(<<KV("$import", VS("b.yaml")), KV("extra", VS("e"))>>) >>)

FileMix2 ==
    File("mix2.yaml", VRef(1),
         << Dict(<<KV("$mixin", VS("base.yaml")), KV("label", VS("override"))>>) >>)

\* Several links to nothing: in two URL fields of one mapping, in two
\* children of one mapping.
FileTwo ==
    File("two.yaml", VRef(1),
         << Dict(<<KV("link", VS("nowhere")), KV("class", VS("Nope"))>>) >>)

FileKids ==
    File("kids.yaml", VRef(1),
         << Dict(<<KV("x", VRef(2)), KV("y", VRef(3))>>),
            Dict(<<KV("link", VS("n1"))>>),
            Dict(<<KV("link", VS("n2"))>>) >>)

\* Every file the transport can read.
Files ==
    {FileA, FileB, FileC1, FileC2, FileD1, FileD2, FileDup, FileM, FileBase, FileInc,
     FileNotes, FileMiss, FileFtp, FileBad, FileIdent, FileNolink, FileKeys, FileNs,
     FileW, FileImp2, FileInc2, FileWrap2, FileMix2, FileTwo, FileKids}

\* The files the transport serves: they do not change.
VARIABLE disk

FileNamed(name) == CHOOSE f \in disk : f.name = name

\* "/" + name is the path of a file of the root directory.
PathOf(name) == "/" \o name

HasFileAt(path) == \E f \in disk : PathOf(f.name) = path

FileAt(path) == CHOOSE f \in disk : PathOf(f.name) = path

\* What the YAML parser makes of a text.
FileWithText(text) == CHOOSE f \in disk : f.text = text

\* ------------------------------------------------------------------------
\* Fetcher
\* ------------------------------------------------------------------------

\* Loader.fetch_text.  No http(s) server answers in the model: requests.get
\* fails, which the code turns into RuntimeError.
fetch_text(m, L, url) ==
    LET cache == m.caches[m.loaders[L].cache] IN
    IF MHas(cache, url) THEN Return(m, VStr(MGet(cache, url)))
    ELSE
      LET m1 == [m EXCEPT !.fetched = Append(@, url)] IN
      IF url.pre \in {"http", "https"} THEN Raise(m1, "RuntimeError")
      ELSE IF url.pre = "file"
      THEN IF HasFileAt(url.path) THEN Return(m1, VStr(FileAt(url.path).text))
           ELSE Raise(m1, "RuntimeError")
      ELSE Raise(m1, "ValueError")

\* The loop of fetch over the identifier fields.
RECURSIVE FetchInject(_, _, _, _, _)
FetchInject(m, L, ids, result, url) ==
    IF ids = <<>> \/ ~Ok(m) THEN m
    ELSE
      LET identifier == Head(ids)
          m1 == IF ~In(m, result, identifier)
                THEN SetAt(m, result, identifier, VStr(url)) ELSE m
          idv == At(m1, result, identifier)
      IN IF idv.k # "str" THEN Raise(m1, "TypeError")
         ELSE FetchInject(
                IdxSet(m1, L, expand_url(m1.loaders[L], idv.s, url, FALSE, FALSE, NoScope),
                       result),
                L, Tail(ids), result, url)

\* Loader.fetch
fetch(m, L, url, inject_ids) ==
    IF IdxHas(m, L, url) THEN Return(m, IdxGet(m, L, url))
    ELSE
      Then(fetch_text(m, L, url), LAMBDA m1 :
      With(FileWithText(m1.ret.s), LAMBDA file :
        IF ~file.yaml THEN Raise(m1, "ValidationException")
        ELSE
          With(YamlLoad(m1, file), LAMBDA m2 :
          Then(IF IsDict(m2, m2.ret) /\ inject_ids /\ m2.loaders[L].identifiers # {}
               THEN FetchInject(m2, L, SeqOfSet(m2.loaders[L].identifiers), m2.ret, url)
               ELSE IdxSet(m2, L, url, m2.ret),
               LAMBDA m3 : Return(m3, m2.ret)))))

\* Loader.check_file
check_file(fn) == fn.pre = "file" /\ HasFileAt(fn.path)

\* ------------------------------------------------------------------------
\* Link validator
\* ------------------------------------------------------------------------

\* "/".join(sp)
RECURSIVE JoinSlash(_)
JoinSlash(sp) ==
    IF sp = <<>> THEN ""
    ELSE IF Len(sp) = 1 THEN sp[1]
    ELSE sp[1] \o "/" \o JoinSlash(Tail(sp))

\* The text of a str.
Text(s) ==
    (IF s.pre = "" THEN "" ELSE s.pre \o (IF s.pre \in Schemes THEN "://" ELSE ":"))
    \o s.path
    \o (IF s.frag # <<>> THEN "#" \o JoinSlash(s.frag) ELSE IF s.eh THEN "#" ELSE "")

\* split.fragment.split("/"): the empty fragment splits into [""].
FragSplit(url) == IF url.frag = <<>> THEN <<"">> ELSE url.frag

\* urlunsplit((scheme, netloc, path, query, "/".join(sp)))
FragJoin(url, sp) ==
    [url EXCEPT !.frag = IF sp = <<"">> THEN <<>> ELSE sp, !.eh = FALSE]

\* A mutant of the first loop: nothing is popped.
PopNone(sp, n) == sp

\* sp after the first loop of validate_scoped: n components popped.
RECURSIVE PopN(_, _)
PopN(sp, n) ==
    IF n > 0 /\ Len(sp) > 0 THEN PopN(SubSeq(sp, 1, Len(sp) - 1), n - 1) ELSE sp

\* A mutant of the search loop: one attempt, no walk up.
ScopedSearchOnce(idx, split, sp, link, tried) ==
    [found |-> NormContains(idx, FragJoin(split, Append(sp, Text(link)))),
     url |-> FragJoin(split, Append(sp, Text(link))),
     tried |-> Append(tried, FragJoin(split, Append(sp, Text(link))))]

\* The search loop of validate_scoped: [found, url, tried].
RECURSIVE ScopedSearch(_, _, _, _, _)
ScopedSearch(idx, split, sp, link, tried) ==
    LET sp1 == Append(sp, Text(link))
        url == FragJoin(split, sp1)
        tried1 == Append(tried, url)
    IN IF NormContains(idx, url) THEN [found |-> TRUE, url |-> url, tried |-> tried1]
       ELSE IF Len(sp) = 0 THEN [found |-> FALSE, url |-> url, tried |-> tried1]
       ELSE ScopedSearch(idx, split, SubSeq(sp, 1, Len(sp) - 1), link, tried1)

\* Loader.validate_scoped
validate_scoped(m, L, field, link, docid) ==
    With(ScopedSearch(IdxOf(m, L), docid,
                      PopN(FragSplit(docid), MGet(m.loaders[L].scoped_ref_fields, field)),
                      link, <<>>),
         LAMBDA r :
      IF r.found THEN Return(m, VStr(r.url))
      ELSE [Raise(m, "ValidationException") EXCEPT
              !.msg = <<[field |-> field, link |-> link, tried |-> r.tried]>>])

\* Loader.getid
getid(m, L, d) ==
    IF ~IsDict(m, d) THEN VNone
    ELSE LET ids == SelectSeq(SeqOfSet(m.loaders[L].identifiers),
                              LAMBDA i : In(m, d, i) /\ At(m, d, i).k = "str")
         IN IF ids = <<>> THEN VNone ELSE At(m, d, Head(ids))

\* raise ValidationException("Field `%s` contains undefined reference to `%s`")
UndefinedReference(m, field, link) ==
    [Raise(m, "ValidationException") EXCEPT
       !.msg = <<[field |-> field, link |-> link, tried |-> <<>>]>>]

\* Whether the str link is known without a search: lines 685 and 691.
LinkKnown(m, L, field, link) ==
    LET self == m.loaders[L] IN
    IF field \in self.vocab_fields
    THEN MHas(self.vocab, link) \/ IdxHas(m, L, link) \/ MHas(self.rvocab, link)
    ELSE IdxHas(m, L, link) \/ MHas(self.rvocab, link)

RECURSIVE validate_links(_, _, _, _, _)
RECURSIVE validate_link(_, _, _, _, _, _)
RECURSIVE ValidateLinkList(_, _, _, _, _, _, _, _)
RECURSIVE ValidateUrlFields(_, _, _, _, _, _)
RECURSIVE ValidateChildren(_, _, _, _, _, _, _, _)

\* Loader.validate_link
validate_link(m, L, field, link, docid, d) ==
    LET self == m.loaders[L] IN
    IF d > RecursionLimit THEN Raise(m, "RecursionError")
    ELSE IF field \in self.nolinkcheck THEN Return(m, link)
    ELSE IF link.k = "str"
    THEN IF LinkKnown(m, L, field, link.s) THEN Return(m, link)
         ELSE IF MHas(self.scoped_ref_fields, field)
         THEN validate_scoped(m, L, field, link.s, docid)
         ELSE IF ~check_file(link.s) THEN UndefinedReference(m, field, link.s)
         ELSE Return(m, link)
    ELSE IF IsList(m, link)
    THEN Then(ValidateLinkList(m, L, field, link, 1, docid, <<>>, d),
              LAMBDA m1 : Return(m1, link))
    ELSE IF IsDict(m, link)
    THEN Then(validate_links(m, L, link, docid, d + 1), LAMBDA m1 : Return(m1, link))
    ELSE Raise(m, "ValidationException")

\* for n, i in enumerate(link): link[n] = self.validate_link(field, i, docid)
ValidateLinkList(m, L, field, link, n, docid, errors, d) ==
    IF n > Len(m.heap[link.o].items)
    THEN IF errors # <<>> THEN [Raise(m, "ValidationException") EXCEPT !.msg = errors]
         ELSE m
    ELSE
      With(validate_link(m, L, field, m.heap[link.o].items[n].val, docid, d + 1),
           LAMBDA m1 :
        IF Ok(m1) \/ m1.err = "ValidationException"
        THEN ValidateLinkList(
               IF Ok(m1) THEN SetIndex(m1, link, n, m1.ret)
               ELSE [m1 EXCEPT !.err = "", !.msg = <<>>],
               L, field, link, n + 1, docid,
               IF Ok(m1) THEN errors ELSE errors \o m1.msg, d)
        ELSE m1)

\* for d in self.url_fields: ... document[d] = self.validate_link(...): the
\* first exception ends the loop.
ValidateUrlFields(m, L, fields, document, docid, d) ==
    IF fields = <<>> THEN m
    ELSE
      LET self == m.loaders[L]
          f == Head(fields)
      IN IF In(m, document, f) /\ f \notin self.identity_links
         THEN Then(validate_link(m, L, f, At(m, document, f), docid, d + 1), LAMBDA m1 :
                ValidateUrlFields(SetAt(m1, document, f, m1.ret), L, Tail(fields),
                                  document, docid, d))
         ELSE ValidateUrlFields(m, L, Tail(fields), document, docid, d)

\* for key, val in iterator: document[key] = self.validate_links(val, docid).
\* For a dict the iterator is a snapshot of its items; for a list it reads
\* the list as it goes.
ValidateChildren(m, L, document, iterator, n, docid, errors, d) ==
    LET islist == m.heap[document.o].kind = "list"
        len == IF islist THEN Len(m.heap[document.o].items) ELSE Len(iterator)
    IN
    IF n > len
    THEN IF errors # <<>> THEN [Raise(m, "ValidationException") EXCEPT !.msg = errors]
         ELSE Return(m, document)
    ELSE
      LET key == IF islist THEN EmptyStr ELSE iterator[n].key
          val == IF islist THEN m.heap[document.o].items[n].val ELSE iterator[n].val
      IN With(validate_links(m, L, val, docid, d + 1), LAMBDA m1 :
           IF Ok(m1) \/ m1.err = "ValidationException"
           THEN ValidateChildren(
                  IF ~Ok(m1) THEN [m1 EXCEPT !.err = "", !.msg = <<>>]
                  ELSE IF islist THEN SetIndex(m1, document, n, m1.ret)
                  ELSE SetAt(m1, document, key, m1.ret),
                  L, document, iterator, n + 1, docid,
                  IF Ok(m1) \/ (~islist /\ key \in m1.loaders[L].nolinkcheck) THEN errors
                  ELSE errors \o m1.msg,
                  d)
           ELSE m1)

\* Loader.validate_links
validate_links(m, L, document, base_url, d) ==
    IF d > RecursionLimit THEN Raise(m, "RecursionError")
    ELSE
      LET id == getid(m, L, document)
          docid == IF Truthy(id) THEN id.s ELSE base_url
          m0 == [m EXCEPT !.visits = Append(@, document)]
      IN
      IF IsList(m, document)
      THEN ValidateChildren(m0, L, document, <<>>, 1, docid, <<>>, d)
      ELSE IF IsDict(m, document)
      THEN With(ValidateUrlFields(m0, L, SeqOfSet(m.loaders[L].url_fields), document,
                                  docid, d),
                LAMBDA m1 :
             IF Ok(m1) \/ m1.err = "ValidationException"
             THEN ValidateChildren(IF Ok(m1) THEN m1
                                   ELSE [m1 EXCEPT !.err = "", !.msg = <<>>],
                                   L, document, m1.heap[document.o].items, 1, docid,
                                   IF Ok(m1) THEN <<>> ELSE m1.msg, d)
             ELSE m1)
      ELSE Return(m, document)

\* ------------------------------------------------------------------------
\* Document rewriter
\* ------------------------------------------------------------------------

\* bool(v)
PyTruthy(m, v) ==
    \/ v.k = "str" /\ v.s # EmptyStr
    \/ v.k = "ref" /\ m.heap[v.o].items # <<>>

\* Loader._normalize_fields: "for d in document" while document gains and
\* loses keys.  Replacing an existing key shrinks the dict, and the next step
\* of the iteration raises RuntimeError.  A renamed key is appended: an
\* interpreter that guards its dict iterators (m.keyguard) raises
\* RuntimeError when the iteration reaches it, another one goes on with the
\* appended keys.
RECURSIVE NormalizeFields(_, _, _, _, _)
NormalizeFields(m, document, loader, keys, appended) ==
    IF keys = <<>>
    THEN IF appended = <<>> THEN m
         ELSE IF m.keyguard THEN Raise(m, "RuntimeError")
         ELSE NormalizeFields(m, document, loader, appended, <<>>)
    ELSE
      LET d == Head(keys) IN
      With(expand_url(m.loaders[loader], d, EmptyStr, FALSE, TRUE, NoScope), LAMBDA d2 :
        IF d = d2 THEN NormalizeFields(m, document, loader, Tail(keys), appended)
        ELSE
          \* document[d2] = document[d]; del document[d]
          With([m EXCEPT !.heap[document.o].items = MDel(MPut(@, d2, At(m, document, d)), d)],
               LAMBDA m1 :
            IF In(m, document, d2) THEN Raise(m1, "RuntimeError")
            ELSE NormalizeFields(m1, document, loader, Tail(keys), Append(appended, d2))))

_normalize_fields(m, document, loader) ==
    NormalizeFields(m, document, loader,
                    [i \in DOMAIN m.heap[document.o].items |-> m.heap[document.o].items[i].key],
                    <<>>)

\* sorted(): the words the model's idmap keys are taken from, in
\* lexicographic order.
LexOrder == <<"x", "y">>

SortedKeys(items) ==
    LET words == SelectSeq(LexOrder, LAMBDA w : MHas(items, S(w)))
    IN [i \in DOMAIN words |-> S(words[i])]

\* The body of the loop over sorted(idmapFieldValue.keys()).
RECURSIVE IdmapEntries(_, _, _, _, _, _)
IdmapEntries(m, loader, idmapField, value, keys, ls) ==
    IF keys = <<>> THEN Return(m, ls)
    ELSE
      LET ld == m.loaders[loader]
          k == Head(keys)
          val == At(m, value, k)
          subject == MGet(ld.idmap, idmapField)
      IN IF ~IsDict(m, val)
         THEN IF MHas(ld.mapPredicate, idmapField)
              THEN LET v == VRef(NewAddr(m))
                       m1 == Alloc(m, Dict(<<Item(MGet(ld.mapPredicate, idmapField), val),
                                             Item(subject, VStr(k))>>))
                   IN IdmapEntries(m1, loader, idmapField, value, Tail(keys), Append(ls, v))
              ELSE Raise(m, "ValidationException")
         ELSE IdmapEntries(SetAt(m, val, subject, VStr(k)), loader, idmapField, value,
                           Tail(keys), Append(ls, val))

\* Loader._resolve_idmap
RECURSIVE ResolveIdmap(_, _, _, _)
ResolveIdmap(m, document, loader, fields) ==
    IF fields = <<>> \/ ~Ok(m) THEN m
    ELSE
      LET f == Head(fields).key
          v == At(m, document, f)
      IN IF In(m, document, f) /\ IsDict(m, v)
            /\ ~In(m, v, S("$import")) /\ ~In(m, v, S("$include"))
         THEN Then(IdmapEntries(m, loader, f, v, SortedKeys(m.heap[v.o].items), <<>>),
                   LAMBDA m1 :
                ResolveIdmap(
                  SetAt(Alloc(m1, List(m1.ret)), document, f, VRef(NewAddr(m1))),
                  document, loader, Tail(fields)))
         ELSE ResolveIdmap(m, document, loader, Tail(fields))

_resolve_idmap(m, document, loader) ==
    ResolveIdmap(m, document, loader, m.loaders[loader].idmap)

\* typeDSLregex on the words of the model that carry a "[]" or "?" suffix:
\* group 1, whether group 2 matched, whether group 3 matched.  Any other str
\* of the model holds neither "[" nor "?", and group 1 is the whole of it.
DslWords == {"File[]?", "File[]", "File?"}

DslMatch(w) ==
    [first |-> "File", array |-> w \in {"File[]?", "File[]"},
     optional |-> w \in {"File[]?", "File?"}]

\* Loader._type_dsl: the value is returned in m.ret.
_type_dsl(m, t) ==
    IF t.k # "str" THEN Return(m, t)
    ELSE IF ~(t.s.pre = "" /\ t.s.frag = <<>> /\ t.s.path \in DslWords) THEN Return(m, t)
    ELSE
      LET g == DslMatch(t.s.path)
          first == VS(g.first)
          m1 == IF g.array
                THEN Alloc(m, Dict(<<KV("type", VS("array")), KV("items", first)>>))
                ELSE m
          second == IF g.array THEN VRef(NewAddr(m)) ELSE first
          m2 == IF g.optional THEN Alloc(m1, List(<<VS("null"), second>>)) ELSE m1
      IN Return(m2, IF g.optional THEN VRef(NewAddr(m1)) ELSE second)

\* [self._type_dsl(t) for t in datum]
RECURSIVE TypeDslEach(_, _, _)
TypeDslEach(m, todo, done) ==
    IF todo = <<>> THEN Return(m, done)
    ELSE With(_type_dsl(m, Head(todo).val), LAMBDA m1 :
           TypeDslEach(m1, Tail(todo), Append(done, m1.ret)))

\* flatten(l), one level
RECURSIVE flatten(_, _)
flatten(m, vals) ==
    IF vals = <<>> THEN <<>>
    ELSE (IF IsList(m, Head(vals))
          THEN [i \in DOMAIN m.heap[Head(vals).o].items |-> m.heap[Head(vals).o].items[i].val]
          ELSE <<Head(vals)>>) \o flatten(m, Tail(vals))

\* item == other, for the items of a type list: strs by text, dicts by
\* their items.
PyEq(m, a, b) ==
    IF a.k = "ref" /\ b.k = "ref" THEN m.heap[a.o] = m.heap[b.o] ELSE a = b

\* uniq: the first of equal items is kept.
RECURSIVE Uniq(_, _, _)
Uniq(m, vals, seen) ==
    IF vals = <<>> THEN seen
    ELSE Uniq(m, Tail(vals),
              IF \E i \in DOMAIN seen : PyEq(m, seen[i], Head(vals)) THEN seen
              ELSE Append(seen, Head(vals)))

\* Loader._resolve_type_dsl
RECURSIVE ResolveTypeDsl(_, _, _)
ResolveTypeDsl(m, document, fields) ==
    IF fields = <<>> THEN m
    ELSE
      LET f == Head(fields) IN
      IF ~In(m, document, f) THEN ResolveTypeDsl(m, document, Tail(fields))
      ELSE
        \* datum = self._type_dsl(...) of datum or of each of its items
        With(IF ~IsList(m, At(m, document, f)) /\ At(m, document, f).k # "str" THEN m
             ELSE With(IF IsList(m, At(m, document, f))
                       THEN TypeDslEach(m, m.heap[At(m, document, f).o].items, <<>>)
                       ELSE _type_dsl(m, At(m, document, f)),
                       LAMBDA r :
                    IF IsList(m, At(m, document, f))
                    THEN SetAt(Alloc(r, List(r.ret)), document, f, VRef(NewAddr(r)))
                    ELSE SetAt(r, document, f, r.ret)),
             LAMBDA m1 :
          \* if isinstance(datum2, list): document[d] = uniq(flatten(datum2))
          ResolveTypeDsl(
            IF IsList(m1, At(m1, document, f))
            THEN SetAt(Alloc(m1, List(Uniq(m1,
                           flatten(m1, [i \in DOMAIN m1.heap[At(m1, document, f).o].items |->
                                          m1.heap[At(m1, document, f).o].items[i].val]),
                           <<>>))),
                       document, f, VRef(NewAddr(m1)))
            ELSE m1,
            document, Tail(fields)))

_resolve_type_dsl(m, document, loader) ==
    ResolveTypeDsl(m, document, SeqOfSet(m.loaders[loader].type_dsl_fields))

\* Loader._resolve_identifier: the new base_url is returned in m.ret.
RECURSIVE ResolveIdentifier(_, _, _, _, _)
ResolveIdentifier(m, document, loader, base_url, ids) ==
    IF ids = <<>> THEN Return(m, VStr(base_url))
    ELSE
      LET identifer == Head(ids) IN
      IF ~In(m, document, identifer)
      THEN ResolveIdentifier(m, document, loader, base_url, Tail(ids))
      ELSE IF At(m, document, identifer).k # "str" THEN Raise(m, "ValidationException")
      ELSE
        With(expand_url(m.loaders[loader], At(m, document, identifer).s, base_url,
                        TRUE, FALSE, NoScope),
             LAMBDA url :
        With(SetAt(m, document, identifer, VStr(url)), LAMBDA m1 :
          ResolveIdentifier(
            IF ~IdxHas(m1, loader, url) \/ IdxGet(m1, loader, url).k = "str"
            THEN IdxSet(m1, loader, url, document) ELSE m1,
            document, loader, url, Tail(ids))))

_resolve_identifier(m, document, loader, base_url) ==
    ResolveIdentifier(m, document, loader, base_url, SeqOfSet(m.loaders[loader].identifiers))

\* for n, v in enumerate(document[identifer]) of _resolve_identity
RECURSIVE ResolveIdentityList(_, _, _, _, _)
ResolveIdentityList(m, lst, loader, base_url, n) ==
    IF n > Len(m.heap[lst.o].items) THEN m
    ELSE
      LET v == m.heap[lst.o].items[n].val IN
      IF v.k # "str" THEN ResolveIdentityList(m, lst, loader, base_url, n + 1)
      ELSE
        With(expand_url(m.loaders[loader], v.s, base_url, TRUE, FALSE, NoScope),
             LAMBDA url :
        With(SetIndex(m, lst, n, VStr(url)), LAMBDA m1 :
          ResolveIdentityList(
            IF ~IdxHas(m1, loader, url) THEN IdxSet(m1, loader, url, VStr(url)) ELSE m1,
            lst, loader, base_url, n + 1)))

\* Loader._resolve_identity
RECURSIVE ResolveIdentity(_, _, _, _, _)
ResolveIdentity(m, document, loader, base_url, fields) ==
    IF fields = <<>> THEN m
    ELSE
      LET f == Head(fields)
          m1 == IF In(m, document, f) /\ IsList(m, At(m, document, f))
                THEN ResolveIdentityList(m, At(m, document, f), loader, base_url, 1)
                ELSE m
      IN ResolveIdentity(m1, document, loader, base_url, Tail(fields))

_resolve_identity(m, document, loader, base_url) ==
    ResolveIdentity(m, document, loader, base_url,
                    SeqOfSet(m.loaders[loader].identity_links))

\* self.scoped_ref_fields.get(d)
ScopeOf(self, d) ==
    IF MHas(self.scoped_ref_fields, d) THEN MGet(self.scoped_ref_fields, d) ELSE NoScope

\* Loader._resolve_uris; the scope of a field is read from self, the rest
\* of the context from loader.
RECURSIVE ResolveUris(_, _, _, _, _, _)
ResolveUris(m, self, document, loader, base_url, fields) ==
    IF fields = <<>> THEN m
    ELSE
      LET f == Head(fields)
          ld == m.loaders[loader]
          expand(url) == expand_url(ld, url, base_url, FALSE, f \in ld.vocab_fields,
                                    ScopeOf(m.loaders[self], f))
      IN IF ~In(m, document, f) THEN ResolveUris(m, self, document, loader, base_url, Tail(fields))
         ELSE
           LET datum == At(m, document, f)
               \* datum, or an item of it
               expanded(u) == IF u.k = "str" THEN VStr(expand(u.s)) ELSE u
           IN ResolveUris(
                IF datum.k = "str" THEN SetAt(m, document, f, expanded(datum))
                ELSE IF IsList(m, datum)
                THEN SetAt(Alloc(m, List([i \in DOMAIN m.heap[datum.o].items |->
                                            expanded(m.heap[datum.o].items[i].val)])),
                           document, f, VRef(NewAddr(m)))
                ELSE m,
                self, document, loader, base_url, Tail(fields))

_resolve_uris(m, self, document, loader, base_url) ==
    ResolveUris(m, self, document, loader, base_url, SeqOfSet(m.loaders[loader].url_fields))

\* ------------------------------------------------------------------------
\* RDF schemas
\* ------------------------------------------------------------------------
\* rdflib is outside the program: a schema document is the set of triples
\* its parse adds to the graph (parses FALSE: no format accepts it).

Triple(s, p, o) == [s |-> s, p |-> p, o |-> o]

RdfProperty == S("rdf:Property")
OwlObjectProperty == S("owl:ObjectProperty")
XsdString == S("xsd:string")
XsdAnyURI == S("xsd:anyURI")
RdfsLiteral == S("rdfs:Literal")

SchemaDocs ==
    { [name |-> "s.rdf", parses |-> TRUE,
       triples |-> { Triple(FileUrl("s.rdf", <<"ref">>), "rdf:type", RdfProperty),
                     Triple(FileUrl("s.rdf", <<"ref">>), "rdfs:range", XsdAnyURI),
                     Triple(FileUrl("s.rdf", <<"label">>), "rdfs:range", XsdString) }],
      [name |-> "bad.rdf", parses |-> FALSE, triples |-> {}] }

\* str(rng).startswith("http://www.w3.org/2001/XMLSchema#") and not anyURI,
\* or rdfs:Literal
IsLiteralRange(rng) == rng \in {XsdString, RdfsLiteral}

\* aslist(ns)
aslist(m, v) ==
    IF v = VEmptyList THEN <<>>
    ELSE IF IsList(m, v) THEN [i \in DOMAIN m.heap[v.o].items |-> m.heap[v.o].items[i].val]
    ELSE <<v>>

\* The parse loop of add_schemas: the graph after it.
RECURSIVE ParseSchemas(_, _, _)
ParseSchemas(graph, schs, base_url) ==
    IF schs = <<>> THEN graph
    ELSE
      LET url == urljoin(base_url, Head(schs).s)
          docs == {sd \in SchemaDocs : PathOf(sd.name) = url.path /\ sd.parses}
      IN ParseSchemas(graph \cup UNION {sd.triples : sd \in docs}, Tail(schs), base_url)

\* for s in ...: self.idx[str(s)] = None
RECURSIVE IndexSubjects(_, _, _)
IndexSubjects(m, L, subjects) ==
    IF subjects = <<>> THEN m
    ELSE IndexSubjects(IdxSet(m, L, Head(subjects), VNone), L, Tail(subjects))

\* Loader.add_schemas, with Loader._add_properties
add_schemas(m, L, ns, base_url) ==
    LET self == m.loaders[L] IN
    With(ParseSchemas(m.graphs[self.graph], aslist(m, ns), base_url), LAMBDA graph :
    With({tr.s : tr \in {x \in graph :
              \/ x.p = "rdf:type" /\ x.o \in {RdfProperty, OwlObjectProperty}
              \/ x.p \in {"rdfs:subPropertyOf", "rdfs:range"}}}
         \cup {tr.o : tr \in {x \in graph : x.p = "rdfs:subPropertyOf"}},
         LAMBDA props :
      IndexSubjects(
        [m EXCEPT !.graphs[self.graph] = graph,
                  !.loaders[L].url_fields =
                      @ \cup {s \in props : \E tr \in graph :
                                 tr.s = s /\ tr.p = "rdfs:range" /\ ~IsLiteralRange(tr.o)},
                  !.fps[self.foreign_properties] = @ \cup props],
        L, SeqOfSet({tr.s : tr \in graph}))))

\* ------------------------------------------------------------------------
\* Reference resolver
\* ------------------------------------------------------------------------

\* 'file://%s/' % os.path.abspath('.'): the root directory.
CwdUrl == Str("file", "/", <<>>, FALSE)

ReturnMeta(m, v, meta) == [m EXCEPT !.ret = v, !.meta = meta]

\* A mutant of the directive check: $import is followed whatever its siblings.
RefDirectiveLax(m, L, ref) ==
    IF IsDict(m, ref) /\ In(m, ref, S("$import")) /\ At(m, ref, S("$import")).k = "str"
    THEN [err |-> "", ref |-> At(m, ref, S("$import")), obj |-> VNone, inc |-> FALSE,
          mixin |-> VNone]
    ELSE [err |-> "ValueError", ref |-> VNone, obj |-> VNone, inc |-> FALSE,
          mixin |-> VNone]

\* The directive of a reference (lines 261-298): what ref, obj, inc and mixin
\* are when resolve_ref goes on, or the error it raises.
RefDirective(m, L, ref) ==
    LET plain(r, obj, inc, mixin) ==
            [err |-> IF r.k = "str" THEN "" ELSE "ValueError",
             ref |-> r, obj |-> obj, inc |-> inc, mixin |-> mixin]
        bad == [err |-> "ValueError", ref |-> VNone, obj |-> VNone, inc |-> FALSE,
                mixin |-> VNone]
    IN
    IF ~IsDict(m, ref) THEN plain(ref, VNone, FALSE, VNone)
    ELSE IF In(m, ref, S("$import"))
    THEN IF Len(m.heap[ref.o].items) = 1
         THEN plain(At(m, ref, S("$import")), VNone, FALSE, VNone) ELSE bad
    ELSE IF In(m, ref, S("$include"))
    THEN IF Len(m.heap[ref.o].items) = 1
         THEN plain(At(m, ref, S("$include")), VNone, TRUE, VNone) ELSE bad
    ELSE IF In(m, ref, S("$mixin"))
    THEN plain(At(m, ref, S("$mixin")), VNone, FALSE, ref)
    ELSE
      LET ids == SelectSeq(SeqOfSet(m.loaders[L].identifiers), LAMBDA i : In(m, ref, i))
          r == IF ids = <<>> THEN VNone ELSE At(m, ref, Head(ids))
      IN IF ~PyTruthy(m, r) THEN bad ELSE plain(r, ref, FALSE, VNone)

\* for identifier in self.identifiers: obj[identifier] = url
RECURSIVE SetIdentifiers(_, _, _, _)
SetIdentifiers(m, obj, ids, url) ==
    IF ids = <<>> THEN m
    ELSE SetIdentifiers(SetAt(m, obj, Head(ids), VStr(url)), obj, Tail(ids), url)

RECURSIVE resolve_ref(_, _, _, _, _, _)
RECURSIVE resolve_all(_, _, _, _, _, _, _)
RECURSIVE ResolveDictItems(_, _, _, _, _, _, _, _)
RECURSIVE ResolveListItems(_, _, _, _, _, _, _)

\* Lines 338-354 of resolve_ref: the requested reference is looked up in the
\* index and a $graph document is split.
ResolveRefResult(m, L, url, hasurl) ==
    IF hasurl /\ ~IdxHas(m, L, url) THEN Raise(m, "RuntimeError")
    ELSE
      LET resolved_obj == IF hasurl THEN IdxGet(m, L, url) ELSE m.ret IN
      IF IsDict(m, resolved_obj) /\ In(m, resolved_obj, S("$graph"))
      THEN LET m1 == Alloc(m, Dict(_copy_dict_without_key(m.heap[resolved_obj.o].items,
                                                          S("$graph"))))
           IN ReturnMeta(m1, At(m, resolved_obj, S("$graph")), VRef(NewAddr(m)))
      ELSE ReturnMeta(m, resolved_obj, m.meta)

\* Loader.resolve_ref; base_url "" stands for None.
resolve_ref(m, L, ref0, base_url0, checklinks, d) ==
    IF d > RecursionLimit THEN Raise(m, "RecursionError")
    ELSE
      LET self == m.loaders[L]
          base_url == IF base_url0 = EmptyStr THEN CwdUrl ELSE base_url0
      IN
      With(RefDirective(m, L, ref0), LAMBDA dir :
      IF dir.err # "" THEN Raise(m, dir.err)
      ELSE
        With(expand_url(self, dir.ref.s, base_url, dir.obj # VNone, FALSE, NoScope),
             LAMBDA url :
        LET mixin == dir.mixin # VNone
            doc_url == urldefrag(url)
        IN
        IF IdxHas(m, L, url) /\ ~mixin THEN ReturnMeta(m, IdxGet(m, L, url), VEmptyDict)
        ELSE IF dir.inc
        THEN Then(fetch_text(m, L, url), LAMBDA m1 : ReturnMeta(m1, m1.ret, VEmptyDict))
        ELSE IF dir.obj # VNone
        THEN \* an inline object: it is its own document
             Then(resolve_all(SetIdentifiers(m, dir.obj, SeqOfSet(self.identifiers), url),
                              L, dir.obj, url, VNone, checklinks, d + 1),
                  LAMBDA m2 : ResolveRefResult(m2, L, url, TRUE))
        ELSE IF IdxHas(m, L, doc_url) /\ ~mixin THEN Raise(m, "ValidationException")
        ELSE
          Then(fetch(m, L, doc_url, ~mixin), LAMBDA m1 :
            IF mixin /\ ~IsDict(m1, m1.ret)
            THEN Raise(DeepCopy(m1, m1.ret), "AttributeError")
            ELSE IF mixin
            THEN With(DeepCopy(m1, m1.ret), LAMBDA m2 :
                 Then(resolve_all(
                        [m2 EXCEPT !.heap[m2.ret.o].items =
                           MDel(MUpdate(@, m2.heap[dir.mixin.o].items), S("$mixin"))],
                        L, m2.ret, base_url, VStr(doc_url), checklinks, d + 1),
                      LAMBDA m4 : ResolveRefResult(m4, L, url, FALSE)))
            ELSE Then(resolve_all(m1, L, IF PyTruthy(m1, m1.ret) THEN m1.ret ELSE VNone,
                                  doc_url, VNone, checklinks, d + 1),
                      LAMBDA m2 : ResolveRefResult(m2, L, url, TRUE)))))

\* document.get(key, default)
GetOr(m, document, key, default) ==
    IF In(m, document, key) THEN At(m, document, key) ELSE default

\* Lines 507-529 of resolve_all: $base, $profile, $namespaces and $schemas.
\* The first of $profile, $namespaces and $schemas that is present makes the
\* sub-loader (if not newctx: newctx = SubLoader(self)); newctx 0 stands for
\* None.  [m, base_url, newctx]
ResolveContextDirectives(m, self, document, base_url, file_base) ==
    LET has(key) == In(m, document, S(key))
        newctx == IF has("$profile") \/ has("$namespaces") \/ has("$schemas")
                  THEN Len(m.loaders) + 1 ELSE 0
        profile == At(m, document, S("$profile")).s
    IN
    [newctx |-> newctx,
     base_url |-> IF has("$base") THEN At(m, document, S("$base")).s ELSE base_url,
     m |->
       With(IF newctx = 0 THEN m ELSE SubLoader(m, self), LAMBDA m0 :
       Then(IF ~has("$profile") THEN m0
            ELSE Then(fetch(m0, self, profile, TRUE), LAMBDA f :
                 Then(add_namespaces(f, newctx,
                                     GetOr(m, document, S("$namespaces"), VEmptyDict)),
                      LAMBDA n :
                   add_schemas(n, newctx, GetOr(m, document, S("$schemas"), VEmptyList),
                               profile))),
            LAMBDA m1 :
       Then(IF ~has("$namespaces") THEN m1
            ELSE add_namespaces(m1, newctx, At(m, document, S("$namespaces"))),
            LAMBDA m2 :
         IF ~has("$schemas") THEN m2
         ELSE add_schemas(m2, newctx, At(m, document, S("$schemas")), file_base))))]

\* Lines 584-589: the identity links of the metadata name the list.
RECURSIVE BindMetadata(_, _, _, _, _, _)
BindMetadata(m, loader, metadata, document, base_url, fields) ==
    IF fields = <<>> \/ metadata.k # "ref" THEN m
    ELSE
      LET f == Head(fields) IN
      IF In(m, metadata, f) /\ At(m, metadata, f).k = "str"
      THEN With(expand_url(m.loaders[loader], At(m, metadata, f).s, base_url, TRUE,
                           FALSE, NoScope),
                LAMBDA url :
             BindMetadata(IdxSet(SetAt(m, metadata, f, VStr(url)), loader, url, document),
                          loader, metadata, document, base_url, Tail(fields)))
      ELSE BindMetadata(m, loader, metadata, document, base_url, Tail(fields))

\* for key, val in list(document.items()):
\*     document[key], _ = loader.resolve_all(val, base_url, file_base=file_base, ...)
ResolveDictItems(m, loader, document, items, n, base_url, file_base, d) ==
    IF n > Len(items) THEN m
    ELSE
      Then(resolve_all(m, loader, items[n].val, base_url, VStr(file_base), FALSE, d + 1),
           LAMBDA m1 :
        ResolveDictItems(SetAt(m1, document, items[n].key, m1.ret), loader, document,
                         items, n + 1, base_url, file_base, d))

\* del document[i]; for item in aslist(l): document.insert(i, item); i += 1
Splice(items, i, vals) ==
    SubSeq(items, 1, i - 1)
    \o [j \in DOMAIN vals |-> Item(EmptyStr, vals[j])]
    \o SubSeq(items, i + 1, Len(items))

\* while i < len(document): ...   (i counts from 1 here)
ResolveListItems(m, loader, document, i, base_url, file_base, d) ==
    IF i > Len(m.heap[document.o].items) THEN m
    ELSE
      LET val == m.heap[document.o].items[i].val IN
      IF IsDict(m, val) /\ (In(m, val, S("$import")) \/ In(m, val, S("$mixin")))
      THEN Then(resolve_ref(m, loader, val, file_base, FALSE, d + 1), LAMBDA m1 :
             ResolveListItems(
               IF IsList(m1, m1.ret)
               THEN [m1 EXCEPT !.heap[document.o].items = Splice(@, i, aslist(m1, m1.ret))]
               ELSE SetIndex(m1, document, i, m1.ret),
               loader, document,
               IF IsList(m1, m1.ret) THEN i + Len(m1.heap[m1.ret.o].items) ELSE i + 1,
               base_url, file_base, d))
      ELSE Then(resolve_all(m, loader, val, base_url, VStr(file_base), FALSE, d + 1),
                LAMBDA m1 :
             ResolveListItems(SetIndex(m1, document, i, m1.ret), loader, document,
                              i + 1, base_url, file_base, d))

\* Loader.resolve_all; file_base VNone stands for None.
resolve_all(m, self, document0, base_url0, file_base0, checklinks, d) ==
    IF d > RecursionLimit THEN Raise(m, "RecursionError")
    ELSE
      LET file_base == IF file_base0 = VNone THEN base_url0 ELSE file_base0.s IN
      IF IsDict(m, document0)
         /\ (In(m, document0, S("$import")) \/ In(m, document0, S("$include")))
      THEN resolve_ref(m, self, document0, file_base, checklinks, d + 1)
      ELSE IF IsDict(m, document0) /\ In(m, document0, S("$mixin"))
      THEN resolve_ref(m, self, document0, base_url0, checklinks, d + 1)
      ELSE IF ~IsDict(m, document0) /\ ~IsList(m, document0)
      THEN ReturnMeta(m, document0, VEmptyDict)
      ELSE
        \* $base, $profile, $namespaces, $schemas
        With(IF IsDict(m, document0)
             THEN ResolveContextDirectives(m, self, document0, base_url0, file_base)
             ELSE [m |-> m, newctx |-> 0, base_url |-> base_url0],
             LAMBDA c :
        LET loader == IF c.newctx # 0 THEN c.newctx ELSE self
            base_url == c.base_url
            graph == IsDict(m, document0) /\ In(m, document0, S("$graph"))
            document == IF graph THEN At(m, document0, S("$graph")) ELSE document0
        IN
        IF ~Ok(c.m) THEN c.m
        ELSE
          \* $graph
          Then(IF ~graph THEN c.m
               ELSE Then(resolve_all(
                           Alloc(c.m,
                                 Dict(_copy_dict_without_key(c.m.heap[document0.o].items,
                                                             S("$graph")))),
                           loader, VRef(NewAddr(c.m)), base_url, VStr(file_base), FALSE,
                           d + 1),
                         LAMBDA g1 : IF ~IsDict(g1, g1.ret)
                                     THEN Raise(g1, "ValidationException") ELSE g1),
               LAMBDA g2 :
          Then(IF IsDict(g2, document)
               THEN Then(_normalize_fields(g2, document, loader), LAMBDA a1 :
                    Then(_resolve_idmap(a1, document, loader), LAMBDA a2 :
                    Then(_resolve_type_dsl(a2, document, loader), LAMBDA a3 :
                    Then(_resolve_identifier(a3, document, loader, base_url), LAMBDA a4 :
                    Then(_resolve_identity(a4, document, loader, a4.ret.s), LAMBDA a5 :
                    Then(_resolve_uris(a5, self, document, loader, a4.ret.s), LAMBDA a6 :
                      ResolveDictItems(a6, loader, document, a6.heap[document.o].items,
                                       1, a4.ret.s, file_base, d)))))))
               ELSE IF IsList(g2, document)
               THEN Then(ResolveListItems(g2, loader, document, 1, base_url, file_base, d),
                         LAMBDA b1 :
                      BindMetadata(b1, loader, IF graph THEN g2.ret ELSE VEmptyDict,
                                   document, base_url,
                                   SeqOfSet(b1.loaders[loader].identity_links)))
               ELSE g2,
               LAMBDA r :
            IF checklinks
            THEN Then(validate_links(r, self, document, EmptyStr, d + 1), LAMBDA v :
                   ReturnMeta(v, v.ret, IF graph THEN g2.ret ELSE VEmptyDict))
            ELSE ReturnMeta(r, document, IF graph THEN g2.ret ELSE VEmptyDict))))

\* ------------------------------------------------------------------------
\* The loaders' contexts and the callers of the model
\* ------------------------------------------------------------------------

\* The @context the root loader is constructed with.
RootCtx ==
    << KV("id", CtxStr(S("@id"))),
       KV("link", CtxDict("@id", -1, FALSE, FALSE)),
       KV("class", CtxDict("@vocab", -1, FALSE, FALSE)),
       KV("source", CtxDict("@id", 1, FALSE, FALSE)),
       KV("name", CtxDict("@id", -1, TRUE, FALSE)),
       KV("see", CtxDict("@id", -1, FALSE, TRUE)),
       KV("Thing", CtxStr(FileUrl("v", <<"Thing">>))) >>

\* A context of field classifications only: no identifier, no vocabulary.
ClassCtx == << KV("link", CtxDict("@id", -1, FALSE, FALSE)) >>

\* Another one, and a context with one vocabulary term.
SeeCtx == << KV("see", CtxDict("@id", -1, FALSE, TRUE)) >>
TermCtx == << KV("Other", CtxStr(FileUrl("v", <<"Other">>))) >>

\* The root context with fields of reference scope 0, 2 and 3 beside source.
ScopeCtx ==
    RootCtx \o << KV("source0", CtxDict("@id", 0, FALSE, FALSE)),
                  KV("source2", CtxDict("@id", 2, FALSE, FALSE)),
                  KV("source3", CtxDict("@id", 3, FALSE, FALSE)) >>

\* A mapping of namespaces.
NsP == << KV("p", VStr(Str("file", "/ns", <<>>, TRUE))) >>

\* The state of the interpreter before anything is constructed.
NoMachine(keyguard) ==
    [heap |-> <<>>, idxs |-> <<>>, graphs |-> <<>>, fps |-> <<>>, caches |-> <<>>,
     loaders |-> <<>>, err |-> "", msg |-> <<>>, ret |-> VNone, meta |-> VNone,
     fetched |-> <<>>, visits |-> <<>>, keyguard |-> keyguard]

\* A call starts with no exception raised and nothing returned.
Begin(m) ==
    [m EXCEPT !.err = "", !.msg = <<>>, !.ret = VNone, !.meta = VNone,
              !.fetched = <<>>, !.visits = <<>>]

\* What one caller does with its loader: the URLs it resolves, the documents
\* it parses itself and hands to resolve_all, the URLs it fetches, and
\* whether it also changes the loader's context, schemas and sub-loaders, and
\* the fields, links and docids it calls validate_link with.
Work(refs, docs, fetches) ==
    [refs |-> refs, docs |-> docs, fetches |-> fetches, ctx |-> RootCtx,
     keyguard |-> TRUE, admin |-> FALSE, fields |-> {}, links |-> {}, docids |-> {}]

Workloads ==
    { Work({FileUrl("a.yaml", <<>>), FileUrl("b.yaml", <<>>)}, {}, {FileUrl("b.yaml", <<>>)}),
      Work({FileUrl("c1.yaml", <<>>), FileUrl("d1.yaml", <<>>)}, {}, {}),
      Work({FileUrl("dup.yaml", <<>>), FileUrl("m.yaml", <<>>), FileUrl("base.yaml", <<>>)},
           {}, {}),
      Work({FileUrl("bad.yaml", <<>>), FileUrl("ident.yaml", <<>>),
            FileUrl("nolink.yaml", <<>>)}, {}, {}),
      Work({FileUrl("miss.yaml", <<>>), FileUrl("ftp.yaml", <<>>)}, {},
           {FileUrl("nothere.yaml", <<>>)}),
      Work({}, {"inc.yaml", "dup.yaml"}, {}),
      Work({FileUrl("keys.yaml", <<>>), FileUrl("ns.yaml", <<>>)}, {}, {}),
      [Work({FileUrl("keys.yaml", <<>>)}, {}, {}) EXCEPT !.keyguard = FALSE],
      [Work({FileUrl("a.yaml", <<>>)}, {}, {}) EXCEPT !.admin = TRUE],
      [Work({FileUrl("bad.yaml", <<>>)}, {}, {}) EXCEPT !.admin = TRUE, !.ctx = ClassCtx],
      [Work({FileUrl("w.yaml", <<>>)}, {}, {}) EXCEPT
          !.ctx = ScopeCtx,
          !.fields = {S("source0"), S("source"), S("source2"), S("source3")},
          !.links = {S("outA"), S("zz")},
          !.docids = {FileUrl("w.yaml", <<>>), FileUrl("w.yaml", <<"main", "step1">>),
                      FileUrl("w.yaml", <<"main", "step1", "in1">>)}],
      Work({}, {"imp2.yaml", "inc2.yaml", "wrap2.yaml", "mix2.yaml"}, {}),
      Work({FileUrl("two.yaml", <<>>), FileUrl("kids.yaml", <<>>)}, {}, {}) }

VARIABLES
    m,        \* the interpreter state: heap, stores, loaders, last outcome
    pre,      \* the interpreter state when the last operation was called
    last,     \* the last operation: [op, loader, ref, checklinks], for
              \* validate_link also [field, link], and the kinds of operation
              \* made before it
    nops,     \* the number of operations made
    work,     \* what this caller does
    handles   \* the loaders this caller holds

vars == <<m, pre, last, nops, work, handles, disk>>

Op(op, L, ref, checklinks, before) ==
    [op |-> op, loader |-> L, ref |-> ref, checklinks |-> checklinks, before |-> before,
     field |-> EmptyStr, link |-> EmptyStr]

\* The root loader is the first loader constructed.
Root == 1

Init ==
    /\ work \in Workloads
    /\ m = Loader(NoMachine(work.keyguard), work.ctx, 0, 0, 0, 0)
    /\ pre = m
    /\ last = Op("init", Root, EmptyStr, FALSE, {})
    /\ nops = 0
    /\ handles = {Root}
    /\ disk = Files

\* The frame of every operation.
Frame(o) ==
    /\ nops < MaxOps
    /\ pre' = m
    /\ last' = [o EXCEPT !.before = (last.before \cup {last.op}) \ {"init"}]
    /\ nops' = nops + 1
    /\ UNCHANGED <<work, disk>>

Called(op, L, ref, checklinks) == Frame(Op(op, L, ref, checklinks, {}))

\* loader.resolve_ref(ref, checklinks=checklinks)
ResolveRef(L, ref, checklinks) ==
    /\ Called("resolve_ref", L, ref, checklinks)
    /\ m' = resolve_ref(Begin(m), L, VStr(ref), EmptyStr, checklinks, 1)
    /\ UNCHANGED handles

\* loader.resolve_all(yaml.load(text of name), url of name, checklinks=checklinks)
ResolveAll(L, name, checklinks) ==
    /\ Called("resolve_all", L, FileUrl(name, <<>>), checklinks)
    /\ LET m1 == YamlLoad(Begin(m), FileNamed(name))
       IN m' = resolve_all(m1, L, m1.ret, FileUrl(name, <<>>), VNone, checklinks, 1)
    /\ UNCHANGED handles

\* loader.resolve_ref(yaml.load(text of name), url of name, checklinks=checklinks)
ResolveRefDoc(L, name, checklinks) ==
    /\ Called("resolve_ref_doc", L, FileUrl(name, <<>>), checklinks)
    /\ LET m1 == YamlLoad(Begin(m), FileNamed(name))
       IN m' = resolve_ref(m1, L, m1.ret, FileUrl(name, <<>>), checklinks, 1)
    /\ UNCHANGED handles

\* loader.resolve_all(document, base, checklinks) on what the last
\* resolve_all, with the same loader, base and checklinks, returned.
ResolveAllAgain ==
    /\ last.op = "resolve_all"
    /\ Ok(m)
    /\ Called("resolve_all_again", last.loader, last.ref, last.checklinks)
    /\ m' = resolve_all(Begin(m), last.loader, m.ret, last.ref, VNone, last.checklinks, 1)
    /\ UNCHANGED handles

\* loader.validate_links(document, "") on the document the last call returned.
ValidateLinks(L) ==
    /\ Ok(m)
    /\ m.ret.k = "ref"
    /\ Called("validate_links", L, EmptyStr, TRUE)
    /\ m' = validate_links(Begin(m), L, m.ret, EmptyStr, 1)
    /\ UNCHANGED handles

\* loader.validate_link(field, link, docid)
ValidateLink(L, field, link, docid) ==
    /\ Frame([Op("validate_link", L, docid, TRUE, {}) EXCEPT !.field = field, !.link = link])
    /\ m' = validate_link(Begin(m), L, field, VStr(link), docid, 1)
    /\ UNCHANGED handles

\* loader.fetch(url)
Fetch(L, url) ==
    /\ Called("fetch", L, url, FALSE)
    /\ m' = fetch(Begin(m), L, url, TRUE)
    /\ UNCHANGED handles

\* loader.add_context(newcontext)
AddContext(L, newcontext) ==
    /\ work.admin
    /\ Called("add_context", L, EmptyStr, FALSE)
    /\ m' = add_context(Begin(m), L, newcontext)
    /\ UNCHANGED handles

\* loader.add_namespaces(ns)
AddNamespaces(L, ns) ==
    /\ work.admin
    /\ Called("add_namespaces", L, EmptyStr, FALSE)
    /\ LET m1 == Alloc(Begin(m), Dict(ns))
       IN m' = add_namespaces(m1, L, VRef(NewAddr(m)))
    /\ UNCHANGED handles

\* loader.add_schemas(sch, "file:///")
AddSchemas(L, sch) ==
    /\ work.admin
    /\ Called("add_schemas", L, S(sch), FALSE)
    /\ m' = add_schemas(Begin(m), L, VS(sch), CwdUrl)
    /\ UNCHANGED handles

\* SubLoader(loader): the caller keeps the new loader.
MakeSubLoader ==
    /\ work.admin
    /\ handles = {Root}
    /\ Called("SubLoader", Root, EmptyStr, FALSE)
    /\ m' = SubLoader(Begin(m), Root)
    /\ handles' = handles \cup {Len(m.loaders) + 1}

Next ==
    \/ \E L \in handles, ref \in work.refs, checklinks \in BOOLEAN :
          ResolveRef(L, ref, checklinks)
    \/ \E L \in handles, name \in work.docs, checklinks \in BOOLEAN :
          ResolveAll(L, name, checklinks)
    \/ \E L \in handles, name \in work.docs, checklinks \in BOOLEAN :
          ResolveRefDoc(L, name, checklinks)
    \/ ResolveAllAgain
    \/ \E L \in handles : ValidateLinks(L)
    \/ \E L \in handles, field \in work.fields, link \in work.links, docid \in work.docids :
          ValidateLink(L, field, link, docid)
    \/ \E L \in handles, url \in work.fetches : Fetch(L, url)
    \/ \E L \in handles, c \in {SeeCtx, TermCtx} : AddContext(L, c)
    \/ \E L \in handles : AddNamespaces(L, NsP)
    \/ \E L \in handles, sch \in {"s.rdf", "bad.rdf"} : AddSchemas(L, sch)
    \/ MakeSubLoader

Spec == Init /\ [][Next]_vars

\* ------------------------------------------------------------------------
\* Properties
\* ------------------------------------------------------------------------

\* How deep two documents are compared.
MaxDepth == 6

\* The mappings of the tree under a value.
Nodes(mm, v) == {a \in ReachFrom(mm.heap, v) : mm.heap[a].kind = "dict"}

\* The str values a field holds: the value itself, or the strs of a list.
StrValues(mm, v) ==
    IF v.k = "str" THEN {v.s}
    ELSE IF IsList(mm, v)
    THEN {mm.heap[v.o].items[i].val.s :
            i \in {j \in DOMAIN mm.heap[v.o].items : mm.heap[v.o].items[j].val.k = "str"}}
    ELSE {}

\* The str values of the fields of a node that are in a set of fields.
FieldStrs(mm, a, fields) ==
    UNION {StrValues(mm, mm.heap[a].items[i].val) :
             i \in {j \in DOMAIN mm.heap[a].items : mm.heap[a].items[j].key \in fields}}

\* The value of a document, to a depth: mappings compare whatever the order
\* of their keys, lists in order.
RECURSIVE Unfold(_, _, _)
Unfold(heap, v, n) ==
    IF v.k # "ref" THEN [kind |-> v.k, s |-> v.s, seq |-> <<>>, set |-> {}]
    ELSE IF n = 0 THEN [kind |-> "cut", s |-> EmptyStr, seq |-> <<>>, set |-> {}]
    ELSE IF heap[v.o].kind = "list"
    THEN [kind |-> "list", s |-> EmptyStr,
          seq |-> [i \in DOMAIN heap[v.o].items |-> Unfold(heap, heap[v.o].items[i].val, n - 1)],
          set |-> {}]
    ELSE [kind |-> "dict", s |-> EmptyStr, seq |-> <<>>,
          set |-> {[key |-> heap[v.o].items[i].key,
                    val |-> Unfold(heap, heap[v.o].items[i].val, n - 1)] :
                     i \in DOMAIN heap[v.o].items}]

\* The last operation was a resolution.
Resolution == last.op \in {"resolve_ref", "resolve_all", "resolve_all_again"}

\* The last transport request of the call failed.
FetchFailed(mm) ==
    /\ ~Ok(mm)
    /\ mm.fetched # <<>>
    /\ ~check_file(mm.fetched[Len(mm.fetched)])

\* C1: after resolve_ref or resolve_all with checklinks=true has returned,
\* every str value of every field in url_fields and not in nolinkcheck, in
\* every mapping of the returned tree, is a key of the Index or of rvocab (or
\* of vocab, for a vocab field) or names an existing local file.
C1_LinksValid ==
    (Resolution /\ last.checklinks /\ Ok(m)) =>
        \A a \in Nodes(m, m.ret) :
            \A f \in m.loaders[last.loader].url_fields \ m.loaders[last.loader].nolinkcheck :
                \A s \in FieldStrs(m, a, {f}) :
                    LinkKnown(m, last.loader, f, s) \/ check_file(s)

\* C2: after a resolution has returned, every mapping of the resolved tree
\* with a str in an identifier field is the very node the Index holds under
\* that identifier.
C2_IdentifierIndexed ==
    (Resolution /\ Ok(m)) =>
        \A a \in Nodes(m, m.ret) :
            \A s \in FieldStrs(m, a, m.loaders[last.loader].identifiers) :
                IdxHas(m, last.loader, s) /\ IdxGet(m, last.loader, s) = VRef(a)

\* C3: every identifier in the tree a resolve_ref returns is an absolute URL,
\* whatever resolve_ref calls were made on the loader before.
C3_IdentifiersAbsolute ==
    (last.op = "resolve_ref" /\ last.before \subseteq {"resolve_ref"} /\ Ok(m)) =>
        \A a \in Nodes(m, m.ret) :
            \A s \in FieldStrs(m, a, m.loaders[last.loader].identifiers) : s.pre \in Schemes

\* C4: resolve_all applied to what a successful resolve_all returned returns
\* an equal document and leaves the Index as it was.
C4_Idempotent ==
    (last.op = "resolve_all_again") =>
        /\ Ok(m)
        /\ Unfold(m.heap, m.ret, MaxDepth) = Unfold(pre.heap, pre.ret, MaxDepth)
        /\ m.idxs = pre.idxs

\* C5: the traversal of documents whose $import edges form a cycle ends by
\* itself: resolve_ref with checklinks=false never goes on until the
\* interpreter's stack is exhausted.
C5_TraversalTerminates ==
    (last.op = "resolve_ref" /\ ~last.checklinks) => m.err # "RecursionError"

\* C6: the validation of a resolved tree that holds a node reachable from
\* itself ends by itself: validate_links never goes on until the
\* interpreter's stack is exhausted.
C6_ValidationTerminates ==
    (last.checklinks /\ m.visits # <<>>) => m.err # "RecursionError"

\* C7: no operation, failed or not, removes a key from an Index.
C7_IndexMonotonic ==
    [][\A i \in DOMAIN m.idxs : MKeys(m.idxs[i]) \subseteq MKeys(m'.idxs[i])]_vars

\* A failed operation has written to an Index that held keys.
C7_Witness ==
    /\ ~Ok(m)
    /\ IdxOf(pre, Root) # <<>>
    /\ MKeys(IdxOf(pre, Root)) # MKeys(IdxOf(m, Root))

\* C8: when the fetch of a nested $import, $include or $mixin fails during
\* resolve_ref, the failure is raised as a validation error and the Index is
\* as it was when resolve_ref was called.
C8_FetchFailureClean ==
    (last.op = "resolve_ref" /\ FetchFailed(m) /\ Len(m.fetched) > 1) =>
        /\ m.err = "ValidationException"
        /\ m.idxs = pre.idxs

\* C9: add_context on a constructed loader is rejected, and no operation
\* changes the compiled context of a loader.
C9_ContextBuiltOnce ==
    /\ last.op = "add_context" => m.err = "ValidationException"
    /\ \A L \in DOMAIN pre.loaders : m.loaders[L] = pre.loaders[L]

\* What S1 expects of resolve_ref("file:///a.yaml").
S1Result ==
    LET url == FileUrl("b.yaml", <<"step1">>)
        steps == At(m, m.ret, S("steps"))
    IN /\ IsDict(m, m.ret)
       /\ In(m, m.ret, S("steps"))
       /\ IsList(m, steps)
       /\ Len(m.heap[steps.o].items) = 1
       /\ IdxHas(m, last.loader, url)
       /\ m.heap[steps.o].items[1].val = IdxGet(m, last.loader, url)
       /\ IsDict(m, IdxGet(m, last.loader, url))
       /\ m.heap[IdxGet(m, last.loader, url).o].items
            = <<KV("id", VStr(url)), KV("run", VS("echo"))>>

\* C10: on a new loader, resolve_ref of a.yaml, whose list element imports
\* b.yaml#step1, returns, and the list element is the node the Index holds
\* under file:///b.yaml#step1, with that URL as its identifier and the other
\* fields of b.yaml's node.
C10_ImportFragment ==
    (last.op = "resolve_ref" /\ last.ref = FileUrl("a.yaml", <<>>) /\ last.before = {}) =>
        Ok(m) /\ S1Result

\* a.yaml has been resolved and its element is the imported node.
C10_Witness ==
    /\ last.op = "resolve_ref"
    /\ last.ref = FileUrl("a.yaml", <<>>)
    /\ last.before = {}
    /\ Ok(m)
    /\ IdxHas(m, Root, FileUrl("b.yaml", <<"step1">>))
    /\ m.heap[At(m, m.ret, S("steps")).o].items[1].val
         = IdxGet(m, Root, FileUrl("b.yaml", <<"step1">>))

\* The URL of the mixin target T of m.yaml, and the node the Index holds for it.
MixinTarget == FileUrl("base.yaml", <<>>)

\* C11: resolve_ref of m.yaml, whose field a is {$mixin: base.yaml, label:
\* override}, returns, and a is a mapping with the keys of base.yaml in
\* base.yaml's order, label holding the override and run base.yaml's value; the
\* Index holds under base.yaml's URL a node that is not the overlay and whose
\* items are those of base.yaml's text.
C11_MixinOverlay ==
    (last.op = "resolve_ref" /\ last.ref = FileUrl("m.yaml", <<>>)) =>
        /\ Ok(m)
        /\ IsDict(m, m.ret)
        /\ IsDict(m, At(m, m.ret, S("a")))
        /\ m.heap[At(m, m.ret, S("a")).o].items
             = <<KV("id", VStr(FileUrl("m.yaml", <<"base">>))),
                 KV("label", VS("override")), KV("run", VS("r"))>>
        /\ IdxHas(m, last.loader, MixinTarget)
        /\ IdxGet(m, last.loader, MixinTarget) # At(m, m.ret, S("a"))
        /\ IsDict(m, IdxGet(m, last.loader, MixinTarget))
        /\ m.heap[IdxGet(m, last.loader, MixinTarget).o].items = FileBase.objs[1].items

\* m.yaml has been resolved by a call that fetched base.yaml and overlaid it.
C11_Witness ==
    /\ last.op = "resolve_ref"
    /\ last.ref = FileUrl("m.yaml", <<>>)
    /\ Ok(m)
    /\ MixinTarget \in {m.fetched[i] : i \in DOMAIN m.fetched}
    /\ ~IdxHas(pre, Root, MixinTarget)
    /\ At(m, At(m, m.ret, S("a")), S("label")) = VS("override")
    /\ At(m, IdxGet(m, Root, MixinTarget), S("label")) = VS("x")

\* "file:///w.yaml#<frag>"
WUrl(frag) == FileUrl("w.yaml", frag)

\* The last operation was validate_link on a field with a reference scope and
\* a link that is no key of the Index or of rvocab, so that the scoped search
\* ran.
ScopedCall ==
    /\ last.op = "validate_link"
    /\ MHas(pre.loaders[last.loader].scoped_ref_fields, last.field)
    /\ ~LinkKnown(pre, last.loader, last.field, last.link)

\* C12 as stated: for the field source2 (refScope=2), the docid
\* file:///w.yaml#main/step1 and the link outA, when the Index contains
\* file:///w.yaml#main/outA, validate_link returns file:///w.yaml#main/outA.
C12_ScopedDepth2 ==
    (/\ ScopedCall
     /\ last.field = S("source2")
     /\ last.ref = WUrl(<<"main", "step1">>)
     /\ last.link = S("outA")
     /\ IdxHas(pre, last.loader, WUrl(<<"main", "outA">>))) =>
        Ok(m) /\ m.ret = VStr(WUrl(<<"main", "outA">>))

\* C12, amended: for a field of refScope=2 and a link L, when the Index
\* contains <doc>#a/L, validate_link returns <doc>#a/L for a docid <doc>#a/b/c;
\* for a docid <doc>#a/b the two components popped leave <doc>#L as the only
\* candidate, and the call fails when the Index does not contain it.
C12_ScopedDepth2Amended ==
    (/\ ScopedCall
     /\ MGet(pre.loaders[last.loader].scoped_ref_fields, last.field) = 2
     /\ Len(last.ref.frag) \in {2, 3}
     /\ IdxHas(pre, last.loader,
                [last.ref EXCEPT !.frag = <<last.ref.frag[1], Text(last.link)>>])) =>
        IF Len(last.ref.frag) = 3
        THEN /\ Ok(m)
             /\ m.ret = VStr([last.ref EXCEPT !.frag = <<last.ref.frag[1], Text(last.link)>>])
        ELSE IF IdxHas(pre, last.loader, [last.ref EXCEPT !.frag = <<Text(last.link)>>])
        THEN Ok(m) /\ m.ret = VStr([last.ref EXCEPT !.frag = <<Text(last.link)>>])
        ELSE /\ m.err = "ValidationException"
             /\ m.msg = <<[field |-> last.field, link |-> last.link,
                           tried |-> <<[last.ref EXCEPT !.frag = <<Text(last.link)>>]>>]>>

\* validate_link("source2", "outA", "file:///w.yaml#main/step1/in1") has
\* returned file:///w.yaml#main/outA.
C12_Witness ==
    /\ ScopedCall
    /\ last.field = S("source2")
    /\ last.ref = WUrl(<<"main", "step1", "in1">>)
    /\ last.link = S("outA")
    /\ Ok(m)
    /\ m.ret = VStr(WUrl(<<"main", "outA">>))

\* The candidates of a scoped search, innermost first: with r the number of
\* components of the docid's fragment (split at "/", the empty fragment being
\* one empty component) that are left when depth of them are dropped, the
\* i-th candidate keeps the first r + 1 - i components and appends the link.
ScopedCandidates(docid, depth, link) ==
    LET sp == FragSplit(docid)
        r == IF Len(sp) > depth THEN Len(sp) - depth ELSE 0
    IN [i \in 1..(r + 1) |-> FragJoin(docid, Append(SubSeq(sp, 1, r + 1 - i), Text(link)))]

\* C13: a scoped search returns the first of its candidates, innermost first,
\* that is a key of the Index; when none is, it raises a validation error
\* that lists every candidate in order; the candidates are at most one more
\* than the components of the docid's fragment; the Index is left as it was.
C13_ScopedSearchOrder ==
    ScopedCall =>
        LET c == ScopedCandidates(last.ref,
                                  MGet(pre.loaders[last.loader].scoped_ref_fields, last.field),
                                  last.link)
            hits == {i \in DOMAIN c : IdxHas(pre, last.loader, c[i])}
        IN /\ Len(c) <= Len(FragSplit(last.ref)) + 1
           /\ hits # {} =>
                 /\ Ok(m)
                 /\ m.ret = VStr(c[CHOOSE i \in hits : \A j \in hits : i <= j])
           /\ hits = {} =>
                 /\ m.err = "ValidationException"
                 /\ m.msg = <<[field |-> last.field, link |-> last.link, tried |-> c]>>
           /\ m.idxs = pre.idxs

\* A search from file:///w.yaml#main/step1/in1 with depth 0 has walked up one
\* level and returned the port of step1, not the output of the workflow.
C13_Witness ==
    /\ ScopedCall
    /\ last.field = S("source0")
    /\ last.ref = WUrl(<<"main", "step1", "in1">>)
    /\ Ok(m)
    /\ m.ret = VStr(WUrl(<<"main", "step1", "outA">>))
    /\ IdxHas(pre, last.loader, WUrl(<<"main", "outA">>))
    /\ ~IdxHas(pre, last.loader, WUrl(<<"main", "step1", "in1", "outA">>))

\* The document the caller parsed for the last operation, and its root.
CallerFile == FileAt(last.ref.path)

CallerRoot == CallerFile.objs[CallerFile.root.o]

\* A mapping that carries $import or $include and another key.
DirectiveMisuse(obj) ==
    /\ obj.kind = "dict"
    /\ MHas(obj.items, S("$import")) \/ MHas(obj.items, S("$include"))
    /\ Len(obj.items) > 1

\* The caller's document is such a mapping, or a list that resolve_all was
\* given and that holds one.
MisuseCall ==
    /\ last.op \in {"resolve_all", "resolve_ref_doc"}
    /\ \/ DirectiveMisuse(CallerRoot)
       \/ /\ last.op = "resolve_all"
          /\ CallerRoot.kind = "list"
          /\ \E i \in DOMAIN CallerRoot.items :
                /\ CallerRoot.items[i].val.k = "ref"
                /\ DirectiveMisuse(CallerFile.objs[CallerRoot.items[i].val.o])

\* The caller's document is a mapping with $mixin and sibling keys.
MixinCall ==
    /\ last.op \in {"resolve_all", "resolve_ref_doc"}
    /\ CallerRoot.kind = "dict"
    /\ MHas(CallerRoot.items, S("$mixin"))
    /\ Len(CallerRoot.items) > 1

\* C14: resolve_ref and resolve_all, given a mapping with $import or $include
\* and another key, raise ValueError without a request to the transport and
\* leave every Index as it was; given a mapping with $mixin and sibling keys
\* they return the overlay.
C14_DirectiveAlone ==
    /\ MisuseCall =>
          /\ m.err = "ValueError"
          /\ m.fetched = <<>>
          /\ m.idxs = pre.idxs
    /\ MixinCall =>
          /\ Ok(m)
          /\ IsDict(m, m.ret)
          /\ MKeys(m.heap[m.ret.o].items) = {S("id"), S("label"), S("run")}
          /\ At(m, m.ret, S("label")) = VS("override")

\* A mapping with $include and a sibling was rejected on a loader whose Index
\* an accepted mixin had filled before.
C14_Witness ==
    /\ MisuseCall
    /\ MHas(CallerRoot.items, S("$include"))
    /\ m.err = "ValueError"
    /\ IdxOf(pre, Root) # <<>>
    /\ IdxOf(m, Root) = IdxOf(pre, Root)

\* The invalid references of the tree under v: the strs in URL fields that
\* validate_link checks and that are no key of the Index, of rvocab or (for
\* a vocab field) of vocab, have no reference scope and name no local file.
InvalidRefs(mm, L, v) ==
    LET self == mm.loaders[L]
        checked == self.url_fields \ (self.identity_links \cup self.nolinkcheck)
    IN UNION {{[field |-> f, link |-> s] :
                 s \in {x \in FieldStrs(mm, a, {f}) :
                          /\ ~LinkKnown(mm, L, f, x)
                          /\ ~MHas(self.scoped_ref_fields, f)
                          /\ ~check_file(x)}} :
              <<a, f>> \in Nodes(mm, v) \X checked}

\* The references the error raised by the last call reports.
ReportedRefs == {[field |-> m.msg[i].field, link |-> m.msg[i].link] : i \in DOMAIN m.msg}

\* C15: the validation error that resolve_ref with checklinks=true raises for
\* two.yaml or kids.yaml reports every invalid reference of the document.
C15_ErrorsAccumulated ==
    (/\ last.op = "resolve_ref"
     /\ last.checklinks
     /\ last.ref \in {FileUrl("two.yaml", <<>>), FileUrl("kids.yaml", <<>>)}
     /\ m.err = "ValidationException"
     /\ IdxHas(m, last.loader, last.ref)) =>
        InvalidRefs(m, last.loader, IdxGet(m, last.loader, last.ref)) \subseteq ReportedRefs

\* The expansion of a vocabulary value, as add_context expands it.
VocabExpansion(self, v) == expand_url(self, v, EmptyStr, FALSE, FALSE, NoScope)

\* C16: in every state of every loader, rvocab maps the expansion of vocab[k]
\* to k for every key k of vocab, and expand_url with vocab_term=true turns
\* that expansion (when it is a URL and not one of the tokens @id and @type)
\* into k.
C16_RvocabInverse ==
    \A L \in DOMAIN m.loaders :
        \A i \in DOMAIN m.loaders[L].vocab :
            LET self == m.loaders[L]
                k == self.vocab[i].key
                u == VocabExpansion(self, self.vocab[i].val)
            IN /\ MHas(self.rvocab, u)
               /\ MGet(self.rvocab, u) = k
               /\ u \notin {S("@id"), S("@type")} =>
                     expand_url(self, u, EmptyStr, FALSE, TRUE, NoScope) = k

\* The loader the last SubLoader call made, and the loader it was made from.
SubMade == m.loaders[Len(m.loaders)]

SubParent == m.loaders[last.loader]

\* The stores of two loaders are the same objects.
SameStores(a, b) ==
    /\ a.idx = b.idx
    /\ a.graph = b.graph
    /\ a.foreign_properties = b.foreign_properties
    /\ a.cache = b.cache

\* The keys of the Index of loader L that the last operation wrote.
Written(L) ==
    {k \in MKeys(IdxOf(m, L)) :
        ~MHas(IdxOf(pre, L), k) \/ MGet(IdxOf(pre, L), k) # MGet(IdxOf(m, L), k)}

\* Every loader sees what the last operation wrote to the Index of its loader.
WritesShared ==
    \A L \in DOMAIN pre.loaders :
        \A k \in Written(last.loader) :
            IdxHas(m, L, k) /\ IdxGet(m, L, k) = IdxGet(m, last.loader, k)

\* C17 as stated: the loader SubLoader(parent) returns has an empty vocab,
\* rvocab and empty field classifications, and its Index, graph,
\* foreign-property set and cache are the parent's.
C17_SubLoaderEmpty ==
    (last.op = "SubLoader") =>
        /\ SubMade.vocab = <<>>
        /\ SubMade.rvocab = <<>>
        /\ SubMade.url_fields = {}
        /\ SubMade.vocab_fields = {}
        /\ SubMade.identifiers = {}
        /\ SubMade.identity_links = {}
        /\ SubMade.nolinkcheck = {}
        /\ SubMade.scoped_ref_fields = <<>>
        /\ SameStores(SubMade, SubParent)

\* C17, amended: the loader SubLoader(parent) returns has the parent's context
\* mapping compiled: the parent's field classifications, the URL fields of
\* the parent but for those its schemas added, the vocabulary of the context
\* mapping without the namespaces added to the parent, and the rvocab inverse
\* to it.  Its Index, graph, foreign-property set and cache are the parent's,
\* and whatever an operation writes to the Index through one loader every
\* loader sees.
C17_SubLoaderCompiled ==
    /\ (last.op = "SubLoader") =>
          /\ SubMade.ctx = SubParent.ctx
          /\ SubMade.identifiers = SubParent.identifiers
          /\ SubMade.identity_links = SubParent.identity_links
          /\ SubMade.vocab_fields = SubParent.vocab_fields
          /\ SubMade.nolinkcheck = SubParent.nolinkcheck
          /\ SubMade.scoped_ref_fields = SubParent.scoped_ref_fields
          /\ SubMade.url_fields \subseteq SubParent.url_fields
          /\ (SubParent.url_fields \ SubMade.url_fields)
                \subseteq m.fps[SubParent.foreign_properties]
          /\ SubMade.vocab = CtxVocab(SubParent.ctx)
          /\ \A i \in DOMAIN SubMade.vocab :
                /\ MHas(SubParent.vocab, SubMade.vocab[i].key)
                /\ MHas(SubMade.rvocab, VocabExpansion(SubMade, SubMade.vocab[i].val))
          /\ SameStores(SubMade, SubParent)
    /\ \A L \in DOMAIN m.loaders : SameStores(m.loaders[L], m.loaders[Root])
    /\ WritesShared

\* resolve_ref through a sub-loader with a compiled context has returned, and
\* what it wrote to the Index is there for the loader it was made from.
C17_Witness ==
    /\ last.op = "resolve_ref"
    /\ last.loader # Root
    /\ "SubLoader" \in last.before
    /\ m.loaders[last.loader].identifiers # {}
    /\ Ok(m)
    /\ Written(last.loader) # {}
    /\ IdxHas(m, Root, last.ref)

=============================================================================
